---------------------------- MODULE Spec2Model ----------------------------
(***************************************************************************)
(* A model of dukascopy_rs: DukascopyService::download_ticks, the stream   *)
(* it builds (iter -> map -> then -> map -> flat_map), the hour            *)
(* enumeration, the bi5 record parser and the default (reqwest) data       *)
(* supplier.                                                               *)
(*                                                                         *)
(* Representation of the Rust values:                                      *)
(*  - a byte buffer (Vec<u8>, Bytes, &[u8]) is a sequence over 0..255;     *)
(*  - a u32 is a pair <<hi, lo>> of 16-bit limbs and an i64 four such      *)
(*    limbs, most significant first, so that every 32-bit offset and every *)
(*    sum with a Unix timestamp is represented exactly;                    *)
(*  - a PrimitiveDateTime is [day, hour, minute, second, nanosecond] with  *)
(*    day the number of days since 1970-01-01;                             *)
(*  - a Tick's ask / bid are kept as the numerator over PriceScale, its    *)
(*    volumes as the IEEE-754 bit pattern of the f32 that is widened.      *)
(***************************************************************************)
EXTENDS Integers, Sequences, FiniteSets, TLC

(***************************************************************************)
(* Bounds of the model.                                                    *)
(***************************************************************************)
\* the longest requested range, in hours
MaxHours == 2

(***************************************************************************)
(* Program constants.                                                      *)
(***************************************************************************)
\* bytes.chunks(20)
RecordSize == 20
\* as f64 / 100_000f64
PriceScale == 100000
\* status 404 is "no events during the requested interval"
NotFound == 404

\* one 16-bit limb
Limb == 256 * 256
SecondsPerHour == 60 * 60
SecondsPerDay == 24 * SecondsPerHour
NanosPerSecond == 1000 * 1000 * 1000

Min(a, b) == IF a < b THEN a ELSE b

(***************************************************************************)
(* Fixed-width integers as 16-bit limbs.                                   *)
(***************************************************************************)
\* BigEndian::read_u32 of a 4-byte slice
read_u32(b) == << b[1] * 256 + b[2], b[3] * 256 + b[4] >>

\* BigEndian::write_i32 / write_u32 of a value given as limbs (the tests)
write_u32(w) == << w[1] \div 256, w[1] % 256, w[2] \div 256, w[2] % 256 >>

\* `x as i64` of a u32: zero extension
U32AsI64(w) == << 0, 0, w[1], w[2] >>

\* an i64 from a non-negative integer below 2^31 (a Unix timestamp)
I64(n) == << 0, 0, n \div Limb, n % Limb >>

\* i64 addition, wrapping at 2^64
I64Add(a, b) ==
    LET s4 == a[4] + b[4]
        s3 == a[3] + b[3] + s4 \div Limb
        s2 == a[2] + b[2] + s3 \div Limb
        s1 == a[1] + b[1] + s2 \div Limb
    IN  << s1 % Limb, s2 % Limb, s3 % Limb, s4 % Limb >>

\* a < b for non-negative i64 values
I64Less(a, b) ==
    \E i \in 1..4 : a[i] < b[i] /\ \A j \in 1..(i - 1) : a[j] = b[j]

I64Leq(a, b) == a = b \/ I64Less(a, b)


(***************************************************************************)
(* The time crate: PrimitiveDateTime and Duration.                         *)
(***************************************************************************)
DateTime(d, h, mi, s, ns) ==
    [day |-> d, hour |-> h, minute |-> mi, second |-> s, nanosecond |-> ns]

\* PrimitiveDateTime::assume_offset(UTC).unix_timestamp(): whole seconds
unix_timestamp(dt) ==
    dt.day * SecondsPerDay + dt.hour * SecondsPerHour + dt.minute * 60 + dt.second

\* PrimitiveDateTime::replace_hour(h), h in 0..23 (so unwrap() succeeds)
replace_hour(dt, h) == [dt EXCEPT !.hour = h]

\* PrimitiveDateTime::as_hms_nano
as_hms_nano(dt) == << dt.hour, dt.minute, dt.second, dt.nanosecond >>

\* end - start: a Duration whose seconds and nanoseconds have the same sign
DateTimeSub(end, start) ==
    LET secs  == unix_timestamp(end) - unix_timestamp(start)
        nanos == end.nanosecond - start.nanosecond
    IN  IF secs > 0 /\ nanos < 0
          THEN [seconds |-> secs - 1, nanoseconds |-> nanos + NanosPerSecond]
        ELSE IF secs < 0 /\ nanos > 0
          THEN [seconds |-> secs + 1, nanoseconds |-> nanos - NanosPerSecond]
        ELSE [seconds |-> secs, nanoseconds |-> nanos]

\* Rust integer division: the quotient is truncated toward zero
TruncDiv(a, b) == IF a >= 0 THEN a \div b ELSE -((-a) \div b)

\* Duration::whole_hours
whole_hours(d) == TruncDiv(d.seconds, SecondsPerHour)

\* Duration::hours
DurationHours(e) == [seconds |-> e * SecondsPerHour, nanoseconds |-> 0]

\* PrimitiveDateTime + Duration
DateTimeAdd(dt, d) ==
    LET ns0   == dt.nanosecond + d.nanoseconds
        carry == IF ns0 >= NanosPerSecond THEN 1 ELSE IF ns0 < 0 THEN -1 ELSE 0
        secs  == unix_timestamp(dt) + d.seconds + carry
        sod   == secs % SecondsPerDay
    IN  DateTime(secs \div SecondsPerDay,
                 sod \div SecondsPerHour,
                 (sod % SecondsPerHour) \div 60,
                 sod % 60,
                 ns0 - carry * NanosPerSecond)

(***************************************************************************)
(* Results, options, errors and panics.                                    *)
(***************************************************************************)
None == [tag |-> "None"]
Some(v) == [tag |-> "Some", val |-> v]
Ok(v) == [tag |-> "Ok", val |-> v]
Err(e) == [tag |-> "Err", error |-> e]
\* a panic unwinds out of the call; site names the statement that panicked
Panic(site) == [tag |-> "Panic", site |-> site]
\* crate::error::Error { kind, inner }
Error(kind, inner) == [kind |-> kind, inner |-> inner]

(***************************************************************************)
(* DukascopyService: the hour enumeration.                                 *)
(***************************************************************************)
\* a slip: only the start bound is asserted
HourAlignedStartOnly(start, end) ==
    as_hms_nano(replace_hour(start, 0)) = << 0, 0, 0, 0 >>

\* the two assert_eq! of download_ticks: TRUE when neither panics
HourAligned(start, end) ==
    /\ as_hms_nano(replace_hour(start, 0)) = << 0, 0, 0, 0 >>
    /\ as_hms_nano(replace_hour(end, 0)) = << 0, 0, 0, 0 >>

\* a slip: the inclusive range 0..=whole_hours
\* a slip: a reversed range is walked from its end to its start
compute_tick_download_times_either_way(start, end) ==
    LET time_span == DateTimeSub(end, start)
        n         == whole_hours(time_span)
    IN  IF n >= 0
          THEN [i \in 1..n |-> DateTimeAdd(start, DurationHours(i - 1))]
          ELSE [i \in 1..(0 - n) |-> DateTimeAdd(end, DurationHours(i - 1))]

compute_tick_download_times_inclusive(start, end) ==
    LET time_span == DateTimeSub(end, start)
        n         == whole_hours(time_span)
    IN  [i \in 1..(n + 1) |-> DateTimeAdd(start, DurationHours(i - 1))]

\* (0..time_span.whole_hours()).map(|e| start + Duration::hours(e)).collect()
compute_tick_download_times(start, end) ==
    LET time_span == DateTimeSub(end, start)
        n         == whole_hours(time_span)
    IN  [i \in 1..n |-> DateTimeAdd(start, DurationHours(i - 1))]

(***************************************************************************)
(* DukascopyService: the URL of an hour's file.                            *)
(***************************************************************************)
\* the calendar date of a day number (days since 1970-01-01), proleptic
\* Gregorian: what PrimitiveDateTime::year / month / day return
CivilFromDays(days) ==
    LET z   == days + 719468
        era == z \div 146097
        doe == z - era * 146097
        yoe == (doe - doe \div 1460 + doe \div 36524 - doe \div 146096) \div 365
        doy == doe - (365 * yoe + yoe \div 4 - yoe \div 100)
        mp  == (5 * doy + 2) \div 153
        m   == IF mp < 10 THEN mp + 3 ELSE mp - 9
    IN  [year  |-> yoe + era * 400 + (IF m <= 2 THEN 1 ELSE 0),
         month |-> m,
         day   |-> doy - (153 * mp + 2) \div 5 + 1]

year(dt) == CivilFromDays(dt.day).year
\* Month as u8: January = 1
month(dt) == CivilFromDays(dt.day).month
day(dt) == CivilFromDays(dt.day).day
hour(dt) == dt.hour

\* format!("{n:02}") of a u8: at least two digits, padded with zeros
Pad2(n) == IF n < 10 THEN "0" \o ToString(n) ELSE ToString(n)

\* a slip: the month is written as the calendar has it, January = 01
generate_tick_download_url_month_from_one(base, time, instrument) ==
    base \o "/" \o instrument \o "/" \o ToString(year(time))
         \o "/" \o Pad2(month(time)) \o "/" \o Pad2(day(time))
         \o "/" \o Pad2(hour(time)) \o "h_ticks.bi5"

\* generate_tick_download_url; base is self.base_url
generate_tick_download_url(base, time, instrument) ==
    base \o "/" \o instrument \o "/" \o ToString(year(time))
         \o "/" \o Pad2(month(time) - 1) \o "/" \o Pad2(day(time))
         \o "/" \o Pad2(hour(time)) \o "h_ticks.bi5"

(***************************************************************************)
(* DukascopyService: decompression and the record parser.                  *)
(***************************************************************************)
\* lzma_rs::lzma_decompress reads the .lzma format: a header of 13 bytes
\* (properties, dictionary size, unpacked size), then range-coded packets
\* (literal, match, repeated match) up to the end marker or the unpacked
\* size.  u32 values of the range coder are limb pairs << high, low >>.

\* a < b for u32 values
U32Less(a, b) == a[1] < b[1] \/ (a[1] = b[1] /\ a[2] < b[2])

\* a - b for u32 values, a >= b
U32Sub(a, b) ==
    IF a[2] >= b[2] THEN << a[1] - b[1], a[2] - b[2] >>
                    ELSE << a[1] - b[1] - 1, a[2] + Limb - b[2] >>

\* (w << 8) | byte, wrapping at 2^32
Shl8(w, byte) ==
    << ((w[1] % 256) * 256 + w[2] \div 256) % Limb, (w[2] % 256) * 256 + byte >>

\* w >> 1
Shr1(w) == << w[1] \div 2, (w[1] % 2) * (Limb \div 2) + w[2] \div 2 >>

\* (range >> 11) * p for an 11-bit probability p
Bound(range, p) ==
    LET q  == range[1] * 32 + range[2] \div 2048
        lo == (q % Limb) * p
    IN  << (q \div Limb) * p + lo \div Limb, lo % Limb >>

\* the probability models: 11-bit counters, each 1024 until it is touched
ProbInit == 2048 \div 2

Prob(probs, i) == IF i \in DOMAIN probs THEN probs[i] ELSE ProbInit

SetProb(probs, i, p) == (i :> p) @@ probs

\* where each family of probability models starts
IsMatch == 0
IsRep == IsMatch + 12 * 16
IsRepG0 == IsRep + 12
IsRepG1 == IsRepG0 + 12
IsRepG2 == IsRepG1 + 12
IsRep0Long == IsRepG2 + 12
PosSlot == IsRep0Long + 12 * 16
SpecPos == PosSlot + 4 * 64
Align == SpecPos + 128 - 14
LenCoder == Align + 16
RepLenCoder == LenCoder + 2 + 2 * 16 * 8 + 256
Literal == RepLenCoder + 2 + 2 * 16 * 8 + 256

\* the range decoder over the input `in`: c.pos is the next byte to read,
\* c.ok is false once a byte was needed beyond the end of the input.
\* Before a bit is decoded the range is brought back above 2^24.
Normalize(in, c) ==
    IF c.range[1] >= 256 THEN c
    ELSE IF c.pos > Len(in) THEN [c EXCEPT !.ok = FALSE]
    ELSE [c EXCEPT !.range = Shl8(@, 0),
                   !.code  = Shl8(@, in[c.pos]),
                   !.pos   = @ + 1]

\* one bit under the probability model i, which adapts to the bit
RcBit(in, c0, i) ==
    LET c     == Normalize(in, c0)
        p     == Prob(c.probs, i)
        bound == Bound(c.range, p)
    IN  IF ~ c.ok THEN [c |-> c, v |-> 0]
        ELSE IF U32Less(c.code, bound)
          THEN [c |-> [c EXCEPT !.range = bound,
                                !.probs = SetProb(@, i, p + (2048 - p) \div 32)],
                v |-> 0]
          ELSE [c |-> [c EXCEPT !.range = U32Sub(@, bound),
                                !.code  = U32Sub(@, bound),
                                !.probs = SetProb(@, i, p - p \div 32)],
                v |-> 1]

\* one bit of probability one half
RcDirect(in, c0) ==
    LET c    == Normalize(in, c0)
        half == Shr1(c.range)
    IN  IF ~ c.ok THEN [c |-> c, v |-> 0]
        ELSE IF U32Less(c.code, half)
          THEN [c |-> [c EXCEPT !.range = half], v |-> 0]
          ELSE [c |-> [c EXCEPT !.range = half, !.code = U32Sub(@, half)],
                v |-> 1]

\* the element of a set of one element.  A step of the decoder is written
\* The({ F(r) : r \in { e } }): F of the value of e, which is computed once,
\* however often F uses it
The(S) == CHOOSE y \in S : TRUE

\* n bits, most significant first, each under the model of the bits before
\* it; the value is m - 2^n
RECURSIVE BitTree(_, _, _, _, _)
BitTree(in, c, base, m, n) ==
    IF n = 0 THEN [c |-> c, v |-> m]
    ELSE The({ BitTree(in, r.c, base, 2 * m + r.v, n - 1) :
               r \in { RcBit(in, c, base + m) } })

\* bits i .. n-1, least significant first
RECURSIVE ReverseBitTree(_, _, _, _, _, _, _)
ReverseBitTree(in, c, base, m, n, i, v) ==
    IF i = n THEN [c |-> c, v |-> v]
    ELSE The({ ReverseBitTree(in, r.c, base, 2 * m + r.v, n, i + 1,
                              v + r.v * 2 ^ i) :
               r \in { RcBit(in, c, base + m) } })

\* n bits of probability one half, most significant first, after the bits
\* t.v: the first half of them, then the rest, which keeps the nesting of
\* the evaluation logarithmic in n
RECURSIVE DirectBitsAfter(_, _, _)
DirectBitsAfter(in, t, n) ==
    IF n = 0 THEN t
    ELSE IF n = 1
      THEN The({ [c |-> r.c, v |-> 2 * t.v + r.v] :
                 r \in { RcDirect(in, t.c) } })
      ELSE The({ DirectBitsAfter(in, u, n - n \div 2) :
                 u \in { DirectBitsAfter(in, t, n \div 2) } })

DirectBits(in, c, n) == DirectBitsAfter(in, [c |-> c, v |-> 0], n)

\* the bits of a literal; after a match the bits are decoded under models
\* chosen by the byte at the last distance, while they agree with it
RECURSIVE LiteralBits(_, _, _, _, _, _)
LiteralBits(in, c, base, symbol, matchByte, matched) ==
    IF symbol >= 256 THEN [c |-> c, v |-> symbol - 256]
    ELSE IF matched
      THEN The({ LiteralBits(in, r.c, base, 2 * symbol + r.v,
                             (matchByte * 2) % 256, r.v = matchByte \div 128) :
                 r \in { RcBit(in, c, base + (1 + matchByte \div 128) * 256
                                           + symbol) } })
      ELSE The({ LiteralBits(in, r.c, base, 2 * symbol + r.v, 0, FALSE) :
                 r \in { RcBit(in, c, base + symbol) } })

\* the three trees of a length: 3 bits for 0..7, 3 bits for 8..15, 8 bits
\* for 16..271
LengthTree(in, c, base, posState, choice, choice2) ==
    IF choice = 0
      THEN The({ [c |-> t.c, v |-> t.v - 8] :
                 t \in { BitTree(in, c, base + 2 + posState * 8, 1, 3) } })
    ELSE IF choice2 = 0
      THEN The({ [c |-> t.c, v |-> 8 + (t.v - 8)] :
                 t \in { BitTree(in, c, base + 2 + 16 * 8 + posState * 8,
                                 1, 3) } })
      ELSE The({ [c |-> t.c, v |-> 16 + (t.v - 256)] :
                 t \in { BitTree(in, c, base + 2 + 2 * 16 * 8, 1, 8) } })

\* a match length less 2: one or two bits choose the tree
Length(in, c, base, posState) ==
    The({ IF choice.v = 0
            THEN LengthTree(in, choice.c, base, posState, 0, 0)
            ELSE The({ LengthTree(in, choice2.c, base, posState, 1, choice2.v) :
                       choice2 \in { RcBit(in, choice.c, base + 1) } }) :
          choice \in { RcBit(in, c, base) } })

\* the bits of a distance after its slot s: none below slot 4, a reverse
\* bit tree below slot 14, else direct bits and the four align bits
DistanceBits(in, s) ==
    LET slot == s.v - 64
        nb   == slot \div 2 - 1
        base == (2 + (slot % 2)) * 2 ^ nb
    IN  IF slot < 4 THEN [c |-> s.c, v |-> slot, marker |-> FALSE]
        ELSE IF slot < 14
          THEN The({ [c |-> r.c, v |-> base + r.v, marker |-> FALSE] :
                     r \in { ReverseBitTree(in, s.c, SpecPos + base - slot,
                                            1, nb, 0, 0) } })
          ELSE The({ The({ IF slot < 62
                             THEN [c |-> a.c, v |-> base + d.v * 16 + a.v,
                                   marker |-> FALSE]
                             ELSE [c |-> a.c, v |-> -1,
                                   marker |-> /\ slot = 63
                                              /\ d.v = 2 ^ 26 - 1
                                              /\ a.v = 16 - 1] :
                           a \in { ReverseBitTree(in, d.c, Align, 1, 4,
                                                  0, 0) } }) :
                     d \in { DirectBits(in, s.c, nb - 4) } })

\* a match distance: v, or v = -1 for a distance of 2^31 or more, of which
\* 0xFFFFFFFF is the end marker
Distance(in, c, lenState) ==
    The({ DistanceBits(in, s) :
          s \in { BitTree(in, c, PosSlot + lenState * 64, 1, 6) } })

\* len bytes copied from dist + 1 bytes back, one by one: when the copy
\* overlaps its own output, the last dist + 1 bytes repeat
CopyMatch(output, dist, len) ==
    output \o [i \in 1..len |->
                 output[Len(output) - dist + ((i - 1) % (dist + 1))]]

Corrupt(d) == [d EXCEPT !.status = "err"]

\* a literal packet
LiteralPacket(in, hdr, d, c) ==
    LET prev      == IF d.out = << >> THEN 0 ELSE d.out[Len(d.out)]
        litState  == (Len(d.out) % 2 ^ hdr.lp) * 2 ^ hdr.lc
                        + prev \div 2 ^ (8 - hdr.lc)
        matched   == d.state >= 7
        matchByte == IF matched THEN d.out[Len(d.out) - d.reps[1]] ELSE 0
    IN  The({ [d EXCEPT !.c     = r.c,
                        !.out   = Append(@, r.v),
                        !.state = IF @ < 4 THEN 0
                                  ELSE IF @ < 10 THEN @ - 3 ELSE @ - 6] :
              r \in { LiteralBits(in, c, Literal + 3 * 256 * litState, 1,
                                  matchByte, matched) } })

\* the copy that ends a match or a repeated match of length len + 2 at the
\* distances reps
CopyPacket(hdr, d, c, reps, len, state) ==
    IF \/ ~ c.ok
       \/ reps[1] >= Len(d.out)
       \/ hdr.known /\ Len(d.out) + len + 2 > hdr.size
      THEN Corrupt(d)
      ELSE [d EXCEPT !.c     = c,
                     !.reps  = reps,
                     !.state = state,
                     !.out   = CopyMatch(@, reps[1], len + 2)]

\* the end marker: the range coder must be finished, and a stream whose
\* header stores the size must have reached it; bytes of the input behind
\* the end marker are left unread
EndMarker(in, hdr, d, c0) ==
    LET c == Normalize(in, c0)
    IN  IF /\ c.ok
           /\ hdr.known => Len(d.out) = hdr.size
           /\ c.code = << 0, 0 >>
          THEN [d EXCEPT !.c = c, !.status = "end"]
          ELSE Corrupt(d)

\* a match of length len + 2 at the distance ds, or the end marker
MatchCopy(in, hdr, d, len, ds) ==
    IF ~ ds.c.ok THEN Corrupt(d)
    ELSE IF ds.marker THEN EndMarker(in, hdr, d, ds.c)
    ELSE IF ds.v < 0 THEN Corrupt(d)
    ELSE CopyPacket(hdr, d, ds.c,
                    << ds.v, d.reps[1], d.reps[2], d.reps[3] >>, len,
                    IF d.state < 7 THEN 7 ELSE 10)

\* a match packet: a length, then a distance
MatchPacket(in, hdr, d, c, posState) ==
    The({ The({ MatchCopy(in, hdr, d, l.v, ds) :
                ds \in { Distance(in, l.c, Min(l.v, 3)) } }) :
          l \in { Length(in, c, LenCoder, posState) } })

\* a repeated match with its length; rep is the place of its distance among
\* the last four, which becomes the first of them
RepLength(in, hdr, d, c, rep, posState) ==
    The({ CopyPacket(hdr, d, l.c,
                     << d.reps[rep] >>
                        \o SubSeq(d.reps, 1, rep - 1)
                        \o SubSeq(d.reps, rep + 1, 4),
                     l.v, IF d.state < 7 THEN 8 ELSE 11) :
          l \in { Length(in, c, RepLenCoder, posState) } })

\* a repeated match of one byte at the last distance
ShortRep(d, c) ==
    IF ~ c.ok \/ d.reps[1] >= Len(d.out) THEN Corrupt(d)
    ELSE [d EXCEPT !.c     = c,
                   !.out   = Append(@, @[Len(@) - d.reps[1]]),
                   !.state = IF @ < 7 THEN 9 ELSE 11]

\* which of the last four distances a repeated match takes: up to three
\* bits; v is its place, 0 for the short repeat
RepChoice(in, d, c, posState) ==
    The({ IF g0.v = 0
            THEN The({ [c |-> long.c, v |-> long.v] :
                       long \in { RcBit(in, g0.c, IsRep0Long + d.state * 16
                                                    + posState) } })
            ELSE The({ IF g1.v = 0 THEN [c |-> g1.c, v |-> 2]
                       ELSE The({ [c |-> g2.c, v |-> 3 + g2.v] :
                                  g2 \in { RcBit(in, g1.c,
                                                 IsRepG2 + d.state) } }) :
                       g1 \in { RcBit(in, g0.c, IsRepG1 + d.state) } }) :
          g0 \in { RcBit(in, c, IsRepG0 + d.state) } })

\* a packet that repeats one of the last four distances
RepPacket(in, hdr, d, c, posState) ==
    IF d.out = << >> THEN Corrupt(d)
    ELSE The({ IF r.v = 0 THEN ShortRep(d, r.c)
               ELSE RepLength(in, hdr, d, r.c, r.v, posState) :
               r \in { RepChoice(in, d, c, posState) } })

\* a packet after its first bit m (0 for a literal): a second bit tells a
\* match from a repeated match
PacketOf(in, hdr, d, m, posState) ==
    IF m.v = 0 THEN LiteralPacket(in, hdr, d, m.c)
    ELSE The({ IF r.v = 0 THEN MatchPacket(in, hdr, d, r.c, posState)
               ELSE RepPacket(in, hdr, d, r.c, posState) :
               r \in { RcBit(in, m.c, IsRep + d.state) } })

\* one packet
Packet(in, hdr, d) ==
    The({ PacketOf(in, hdr, d, m, Len(d.out) % 2 ^ hdr.pb) :
          m \in { RcBit(in, d.c, IsMatch + d.state * 16
                                 + (Len(d.out) % 2 ^ hdr.pb)) } })

\* the output at the unpacked size the header stores: the stream ends
\* there when the range coder is finished (its normalized code is 0), and
\* otherwise the one packet that may follow is the end marker
SizeReached(in, hdr, d) ==
    The({ IF ~ c.ok THEN Corrupt(d)
          ELSE IF c.code = << 0, 0 >> THEN [d EXCEPT !.c = c, !.status = "end"]
          ELSE The({ IF e.status = "end" THEN e ELSE Corrupt(e) :
                     e \in { Packet(in, hdr, [d EXCEPT !.c = c]) } }) :
          c \in { Normalize(in, d.c) } })

\* one turn of the decoder's loop: nothing once it has stopped, the end of
\* the stream at the unpacked size when the header stores it, else the next
\* packet
Step(in, hdr, d) ==
    IF d.status # "run" THEN d
    ELSE IF ~ d.c.ok THEN Corrupt(d)
    ELSE IF hdr.known /\ Len(d.out) = hdr.size THEN SizeReached(in, hdr, d)
    ELSE Packet(in, hdr, d)

\* 2 ^ n turns of the loop, as two halves, which keeps the nesting of the
\* evaluation logarithmic in the number of packets
RECURSIVE Steps(_, _, _, _)
Steps(in, hdr, d, n) ==
    IF d.status # "run" THEN d
    ELSE IF n = 0 THEN Step(in, hdr, d)
    ELSE The({ Steps(in, hdr, e, n - 1) : e \in { Steps(in, hdr, d, n - 1) } })

\* the loop: packets up to the end of the stream or an error;
\* the turns are taken 2 ^ n at a time with n = 0, 1, 2, ...
RECURSIVE Packets(_, _, _, _)
Packets(in, hdr, d, n) ==
    IF d.status # "run" THEN d
    ELSE The({ Packets(in, hdr, e, k) :
               e \in { Steps(in, hdr, d, n) }, k \in { n + 1 } })

\* the header: the properties byte (pb * 5 + lp) * 9 + lc, four bytes of
\* dictionary size, eight bytes of unpacked size, little-endian, all 255
\* when the size is not stored and the stream ends with the end marker
LzmaHeader(in) ==
    [lc    |-> in[1] % 9,
     lp    |-> (in[1] \div 9) % 5,
     pb    |-> in[1] \div (9 * 5),
     known |-> \E i \in 6..13 : in[i] # 255,
     \* sizes of 2^31 and more count as 2^31 - 1: no output here is as long
     size  |-> IF (\A i \in 10..13 : in[i] = 0) /\ in[9] < 128
                 THEN in[6] + 256 * (in[7] + 256 * (in[8] + 256 * in[9]))
                 ELSE Limb * (Limb \div 2 - 1) + (Limb - 1)]

\* the decoder before the first packet: the range coder has read the 0
\* byte and the four bytes of its code
LzmaStart(in) ==
    [c      |-> [range |-> << Limb - 1, Limb - 1 >>,
                 code  |-> read_u32(SubSeq(in, 15, 18)),
                 pos   |-> 19,
                 probs |-> << >>,
                 ok    |-> TRUE],
     out    |-> << >>,
     state  |-> 0,
     reps   |-> << 0, 0, 0, 0 >>,
     status |-> "run"]

\* the decoder on a whole input, the output collected in a buffer: an error
\* for an input too short for the header and the five bytes the range coder
\* starts with, for properties out of range or a first range coder byte
\* that is not 0, and for corrupt or truncated packets
LzmaDecode(in) ==
    IF Len(in) < 13 + 5 THEN Err("lzma")
    ELSE IF in[1] >= 9 * 5 * 5 THEN Err("lzma")
    ELSE IF in[14] # 0 THEN Err("lzma")
    ELSE The({ IF hdr.lc + hdr.lp > 4 THEN Err("lzma")
               ELSE The({ IF d.status = "end" THEN Ok(d.out)
                          ELSE Err("lzma") :
                          d \in { The({ Packets(in, hdr, d0, 0) :
                                        d0 \in { LzmaStart(in) } }) } }) :
               hdr \in { LzmaHeader(in) } })

\* an .lzma stream as an encoder writes it: properties 93 (lc 3, lp 0,
\* pb 2), a dictionary of 2^23 bytes, the size not stored, the 0 byte the
\* range coder starts with, then the packets, the end marker last
LzmaAlone(packets) ==
    << 93, 0, 0, 128, 0 >> \o [i \in 1..8 |-> 255] \o << 0 >> \o packets

\* the compressed hour files served in the model (liblzma's encoding of
\* each): files of up to two records, with or without a partial record
\* behind them.  The records are the test's, at offsets 218 and 3599999.
Streams ==
    {
      \* an empty file
      LzmaAlone(<< 131, 255, 251, 255, 255, 192, 0, 0, 0 >>),
      \* 1 byte of a record
      LzmaAlone(<< 0, 65, 254, 247, 255, 255, 224, 0, 128, 0 >>),
      \* 19 bytes of a record
      LzmaAlone(<< 0, 104, 52, 223, 38, 27, 89, 185, 151, 141, 104, 127, 242,
                   182, 145, 197, 165, 234, 236, 220, 255, 255, 253, 138, 48, 0 >>),
      \* one record (offset 218)
      LzmaAlone(<< 0, 104, 52, 223, 38, 27, 89, 185, 151, 141, 104, 127, 242,
                   182, 145, 197, 165, 230, 3, 132, 57, 10, 223, 254, 34, 168, 0 >>),
      \* one record (offset 218) and 1 byte of a record
      LzmaAlone(<< 0, 104, 52, 223, 38, 27, 89, 185, 151, 141, 104, 127, 242,
                   182, 145, 197, 165, 238, 94, 180, 66, 255, 255, 253, 118, 144,
                   0 >>),
      \* one record (offset 218) and 19 bytes of a record
      LzmaAlone(<< 0, 104, 52, 223, 38, 27, 89, 185, 151, 141, 104, 127, 242,
                   182, 145, 197, 165, 238, 116, 13, 176, 28, 134, 255, 255, 253,
                   177, 144, 0 >>),
      \* one record (offset 3599999)
      LzmaAlone(<< 0, 14, 143, 17, 157, 132, 7, 202, 160, 38, 191, 126, 1, 69,
                   222, 76, 178, 30, 62, 161, 10, 9, 183, 255, 255, 118, 212, 0,
                   0 >>),
      \* one record (offset 3599999) and 1 byte of a record
      LzmaAlone(<< 0, 14, 143, 17, 157, 132, 7, 202, 160, 38, 191, 126, 1, 69,
                   222, 76, 178, 30, 64, 248, 69, 71, 143, 255, 255, 79, 132, 0,
                   0 >>),
      \* one record (offset 3599999) and 19 bytes of a record
      LzmaAlone(<< 0, 14, 143, 17, 157, 132, 7, 202, 160, 38, 191, 126, 1, 69,
                   222, 76, 178, 30, 64, 253, 98, 230, 82, 13, 152, 31, 255, 255,
                   178, 74, 0, 0 >>),
      \* two records (offsets 218, 218)
      LzmaAlone(<< 0, 104, 52, 223, 38, 27, 89, 185, 151, 141, 104, 127, 242,
                   182, 145, 197, 165, 238, 116, 32, 40, 157, 164, 178, 191, 253,
                   159, 164, 0 >>),
      \* two records (offsets 218, 218) and 1 byte of a record
      LzmaAlone(<< 0, 104, 52, 223, 38, 27, 89, 185, 151, 141, 104, 127, 242,
                   182, 145, 197, 175, 51, 39, 241, 194, 162, 152, 47, 255, 255,
                   186, 181, 0, 0 >>),
      \* two records (offsets 218, 218) and 19 bytes of a record
      LzmaAlone(<< 0, 104, 52, 223, 38, 27, 89, 185, 151, 141, 104, 127, 242,
                   182, 145, 197, 175, 51, 40, 26, 26, 34, 152, 47, 255, 255,
                   186, 181, 0, 0 >>),
      \* two records (offsets 218, 3599999)
      LzmaAlone(<< 0, 104, 52, 223, 38, 27, 89, 185, 151, 141, 104, 127, 242,
                   182, 145, 197, 175, 129, 7, 240, 6, 247, 24, 77, 209, 18, 124,
                   95, 254, 200, 84, 0 >>),
      \* two records (offsets 218, 3599999) and 1 byte of a record
      LzmaAlone(<< 0, 104, 52, 223, 38, 27, 89, 185, 151, 141, 104, 127, 242,
                   182, 145, 197, 175, 129, 7, 240, 6, 247, 33, 127, 82, 71, 47,
                   255, 254, 218, 248, 0 >>),
      \* two records (offsets 218, 3599999) and 19 bytes of a record
      LzmaAlone(<< 0, 104, 52, 223, 38, 27, 89, 185, 151, 141, 104, 127, 242,
                   182, 145, 197, 175, 129, 7, 240, 6, 247, 33, 128, 18, 111,
                   240, 185, 83, 255, 255, 246, 66, 192, 0 >>),
      \* two records (offsets 3599999, 218)
      LzmaAlone(<< 0, 14, 143, 17, 157, 132, 7, 202, 160, 38, 191, 126, 1, 69,
                   222, 76, 178, 30, 64, 253, 98, 232, 212, 112, 226, 76, 95,
                   255, 173, 88, 128, 0 >>),
      \* two records (offsets 3599999, 218) and 1 byte of a record
      LzmaAlone(<< 0, 14, 143, 17, 157, 132, 7, 202, 160, 38, 191, 126, 1, 69,
                   222, 76, 178, 30, 64, 253, 98, 235, 86, 216, 187, 123, 255,
                   255, 175, 200, 0, 0 >>),
      \* two records (offsets 3599999, 218) and 19 bytes of a record
      LzmaAlone(<< 0, 14, 143, 17, 157, 132, 7, 202, 160, 38, 191, 126, 1, 69,
                   222, 76, 178, 30, 64, 253, 98, 238, 216, 206, 236, 191, 255,
                   255, 253, 146, 96, 0 >>),
      \* two records (offsets 3599999, 3599999)
      LzmaAlone(<< 0, 14, 143, 17, 157, 132, 7, 202, 160, 38, 191, 126, 1, 69,
                   222, 76, 178, 30, 64, 248, 188, 29, 102, 36, 140, 167, 127,
                   250, 171, 32, 0 >>),
      \* two records (offsets 3599999, 3599999) and 1 byte of a record
      LzmaAlone(<< 0, 14, 143, 17, 157, 132, 7, 202, 160, 38, 191, 126, 1, 69,
                   222, 76, 178, 30, 64, 248, 188, 70, 215, 34, 11, 255, 255,
                   250, 211, 64, 0 >>),
      \* two records (offsets 3599999, 3599999) and 19 bytes of a record
      LzmaAlone(<< 0, 14, 143, 17, 157, 132, 7, 202, 160, 38, 191, 126, 1, 69,
                   222, 76, 178, 30, 64, 248, 183, 119, 108, 200, 110, 107, 32,
                   34, 255, 255, 253, 148, 48, 0 >>),
      \* one record (offset 0xFFFFFFFF)
      LzmaAlone(<< 127, 232, 124, 0, 41, 211, 210, 153, 134, 4, 53, 183, 180, 47,
                   142, 114, 92, 4, 93, 124, 195, 159, 253, 175, 112, 0 >>)
    }

\* the decoder's results on these streams, computed once
LzmaDecoded == [s \in Streams |-> LzmaDecode(s)]

\* lzma_rs::lzma_decompress: the decoder, its results on Streams looked up
lzma_decompress(bytes) ==
    IF bytes \in DOMAIN LzmaDecoded THEN LzmaDecoded[bytes]
    ELSE LzmaDecode(bytes)

\* a slip: an absent hour is decompressed as if it were an empty payload
decompress_data_of_empty_bytes(bytes) ==
    The({ IF r.tag = "Ok" THEN Ok(r.val) ELSE Err(Error("Decode", r.error)) :
          r \in { lzma_decompress(IF bytes.tag = "Some" THEN bytes.val
                                  ELSE << >>) } })

decompress_data(bytes) ==
    IF bytes.tag = "Some"
      THEN The({ IF r.tag = "Ok" THEN Ok(r.val)
                 ELSE Err(Error("Decode", r.error)) :
                 r \in { lzma_decompress(bytes.val) } })
      ELSE Ok(<< >>)

\* slice::chunks(n): consecutive windows of n bytes, the last one shorter
\* when the length is not a multiple of n
chunks(bytes, n) ==
    [i \in 1..((Len(bytes) + n - 1) \div n) |->
        SubSeq(bytes, (i - 1) * n + 1, Min(i * n, Len(bytes)))]

\* `x as i32 as i64` of a u32: the top bit read as a sign
U32AsI32AsI64(w) ==
    IF w[1] >= Limb \div 2 THEN << Limb - 1, Limb - 1, w[1], w[2] >>
                           ELSE << 0, 0, w[1], w[2] >>

\* a slip: the offset is read as a signed 32-bit value
create_tick_offset_as_i32(millis_since_epoch, bytes) ==
    IF Len(bytes) # RecordSize
      THEN Panic("create_tick")
      ELSE [tag        |-> "Tick",
            time       |-> I64Add(millis_since_epoch,
                                  U32AsI32AsI64(read_u32(SubSeq(bytes, 1, 4)))),
            ask        |-> read_u32(SubSeq(bytes, 5, 8)),
            bid        |-> read_u32(SubSeq(bytes, 9, 12)),
            ask_volume |-> read_u32(SubSeq(bytes, 13, 16)),
            bid_volume |-> read_u32(SubSeq(bytes, 17, 20))]

\* create_tick: debug_assert!(bytes.len() == 20) in a debug build, and the
\* slices bytes[0..4] .. bytes[16..20] in every build, panic on a window
\* shorter than 20 bytes (a window is never longer: it comes from chunks(20)).
create_tick(millis_since_epoch, bytes) ==
    IF Len(bytes) # RecordSize
      THEN Panic("create_tick")
      ELSE [tag        |-> "Tick",
            time       |-> I64Add(millis_since_epoch,
                                  U32AsI64(read_u32(SubSeq(bytes, 1, 4)))),
            ask        |-> read_u32(SubSeq(bytes, 5, 8)),
            bid        |-> read_u32(SubSeq(bytes, 9, 12)),
            ask_volume |-> read_u32(SubSeq(bytes, 13, 16)),
            bid_volume |-> read_u32(SubSeq(bytes, 17, 20))]

\* buffer_to_ticks: Ok(the ticks), or the panic of a create_tick call
buffer_to_ticks(date, bytes) ==
    LET millis_since_epoch == I64(unix_timestamp(date))
        windows == chunks(bytes, RecordSize)
        ticks   == [i \in 1..Len(windows) |->
                       create_tick(millis_since_epoch, windows[i])]
    IN  IF \E i \in 1..Len(ticks) : ticks[i].tag = "Panic"
          THEN Panic("create_tick")
          ELSE Ok(ticks)

(***************************************************************************)
(* The default data supplier, ReqwestDataSupplier.                         *)
(*                                                                         *)
(* An HTTP exchange is what the network does with the GET: the connection  *)
(* fails (conn = "refused"), or a response with a status arrives whose     *)
(* body is read in full (body.tag = "Ok") or breaks off (body.tag = "Err").*)
(***************************************************************************)
\* reqwest::get(url).await: Err only for a request that got no response;
\* such an error carries no status (Error::status() is Some only for an
\* error made by Response::error_for_status, which fetch never calls).
reqwest_get(x) ==
    IF x.conn = "ok"
      THEN Ok(x)
      ELSE Err([status |-> None, cause |-> "connect"])

\* ReqwestDataSupplier::fetch
ReqwestFetch(x) ==
    LET response == reqwest_get(x)
    IN  IF response.tag = "Ok"
          THEN LET body == response.val.body
               IN  IF body.tag = "Ok"
                     THEN IF Len(body.val) = 0 THEN Ok(None)
                          ELSE Ok(Some(body.val))
                     ELSE Err(Error("Network", "body"))
        ELSE IF response.error.status.tag = "None"
          THEN Panic("fetch")
        ELSE IF response.error.status.val = NotFound
          THEN Ok(None)
        ELSE Err(Error("Network", response.error.cause))

(***************************************************************************)
(* DukascopyService::download_ticks: what one hour contributes.            *)
(***************************************************************************)
\* a slip: a failed hour is dropped (an empty inner stream) instead of
\* standing in the output as one error item
HourItemsDropsErrors(date, r) ==
    IF r.tag = "Err" THEN Ok(<< >>)
    ELSE The({ IF d.tag = "Err" THEN Ok(<< >>)
               ELSE The({ IF t.tag = "Panic" THEN t
                          ELSE Ok([i \in 1..Len(t.val) |-> Ok(t.val[i])]) :
                          t \in { buffer_to_ticks(date, d.val) } }) :
               d \in { decompress_data(r.val) } })

\* a slip: the supplier's error is wrapped again, as a Decode error
HourItemsRewrapsErrors(date, r) ==
    IF r.tag = "Err" THEN Ok(<< Err(Error("Decode", r.error.inner)) >>)
    ELSE The({ IF d.tag = "Err" THEN Ok(<< Err(d.error) >>)
               ELSE The({ IF t.tag = "Panic" THEN t
                          ELSE Ok([i \in 1..Len(t.val) |-> Ok(t.val[i])]) :
                          t \in { buffer_to_ticks(date, d.val) } }) :
               d \in { decompress_data(r.val) } })

\* .then(fetch ... .map(|b| (date, b))) .map(and_then decompress_data)
\* .flat_map(buffer_to_ticks ... | vec![Err(e)]): the items of the inner
\* stream built from the fetch result r of hour `date`, or a panic.
HourItems(date, r) ==
    IF r.tag = "Err" THEN Ok(<< Err(r.error) >>)
    ELSE The({ IF d.tag = "Err" THEN Ok(<< Err(d.error) >>)
               ELSE The({ IF t.tag = "Panic" THEN t
                          ELSE Ok([i \in 1..Len(t.val) |-> Ok(t.val[i])]) :
                          t \in { buffer_to_ticks(date, d.val) } }) :
               d \in { decompress_data(r.val) } })


(***************************************************************************)
(* The inputs of the model.                                                *)
(***************************************************************************)
\* 2020-03-12, the day of the crate's tests, in days since 1970-01-01
BaseDay == 18333

\* the last hour of that day, so that a two-hour range crosses midnight
StartHour == 24 - 1

\* a 20-byte record: the test's prices and volumes behind the given offset
EncodeRecord(offset) ==
    write_u32(offset) \o write_u32(<< 1, 46279 >>) \o write_u32(<< 1, 46276 >>)
        \o write_u32(<< 16271, 23593 >>) \o write_u32(<< 16192, 0 >>)

RECURSIVE Concat(_)
Concat(ss) == IF ss = << >> THEN << >> ELSE Head(ss) \o Concat(Tail(ss))

\* what a supplier can hand back as bytes: nothing, a byte that is no LZMA
\* stream, or a compressed hour file
Bodies == { << >>, << 0 >> } \cup Streams

Statuses == { 200, NotFound, 500 }

HttpExchanges ==
    { [conn |-> "refused", status |-> 0, body |-> Err("none")] }
        \cup { [conn |-> "ok", status |-> s, body |-> Ok(b)] :
                  s \in Statuses, b \in Bodies }
        \cup { [conn |-> "ok", status |-> s, body |-> Err("reset")] :
                  s \in Statuses }

\* marks a fetch that did not go through HTTP
NoHttp == [conn |-> "none", status |-> 0, body |-> Err("none")]

\* the outcomes of DataSupplier::fetch for a supplier other than the default
\* one (InMemoryDataSupplier, TestResourceDataSupplier, a caller's own)
CustomOutcomes ==
    { Ok(None), Err(Error("Network", "supplier")) }
        \cup { Ok(Some(b)) : b \in Bodies }

\* the day before a new year: 2019-12-31
YearEndDay == BaseDay - 72

\* what is asked for: a vendor code on the test's day, and a name with
\* characters a URL path would escape on the day before a new year
Targets ==
    { [instrument |-> "EURGBP", day |-> BaseDay],
      [instrument |-> "EUR USD/x", day |-> YearEndDay] }

\* Default::default()
DefaultBaseUrl == "https://datafeed.dukascopy.com/datafeed"

\* the services built: Default::default(), and new("", supplier) as in the
\* tests
Services ==
    { [supplier |-> "reqwest", base_url |-> DefaultBaseUrl],
      [supplier |-> "custom", base_url |-> ""] }

MinuteParts == { 0, 15 }
SecondParts == { 0, 30 }
NanoParts == { 0, 1 }

\* starts in the last hour of day d
Starts(d) ==
    { DateTime(d, StartHour, m, s, ns) :
        m \in MinuteParts, s \in SecondParts, ns \in NanoParts }

\* ends from one hour before a start of day d to MaxHours after it
Ends(d) ==
    { DateTimeAdd(DateTime(d, StartHour, m, s, ns), DurationHours(k)) :
        m \in MinuteParts, s \in SecondParts, ns \in NanoParts,
        k \in (-1)..MaxHours }

NoRequest == [instrument |-> "", start |-> None, end |-> None]

(***************************************************************************)
(* The state.                                                              *)
(***************************************************************************)
VARIABLES
    supplier,   \* "reqwest" (Default) or "custom" (new with a supplier)
    base_url,   \* DukascopyService::base_url
    pc,         \* "new", "idle", "polling", "fetching", "done", "panicked",
                \* "dropped"
    panicSite,  \* where the panic was raised, "none" without one
    req,        \* the arguments of download_ticks
    hours,      \* the Vec behind stream::iter
    idx,        \* how many of its elements stream::iter has handed out
    inflight,   \* the hours whose fetch future is pending
    inner,      \* the rest of flat_map's current inner stream
    out,        \* the items the consumer has received
    outHour,    \* for each of them, the position of its hour in hours
    fetchLog,   \* the hours of the fetches issued, in order
    urls,       \* the URLs handed to DataSupplier::fetch, in order
    log,        \* the fetches that returned: [date, result]
    lastHttp,   \* the HTTP exchange of the last fetch that came back
    pulls       \* how often the consumer has asked for the next item

vars == << supplier, base_url, pc, panicSite, req, hours, idx, inflight, inner, out,
           outHour, fetchLog, urls, log, lastHttp, pulls >>

Init ==
    /\ \E s \in Services : supplier = s.supplier /\ base_url = s.base_url
    /\ pc = "new"
    /\ panicSite = "none"
    /\ req = NoRequest
    /\ hours = << >>
    /\ idx = 0
    /\ inflight = { }
    /\ inner = << >>
    /\ out = << >>
    /\ outHour = << >>
    /\ fetchLog = << >>
    /\ urls = << >>
    /\ log = << >>
    /\ lastHttp = NoHttp
    /\ pulls = 0

(***************************************************************************)
(* The call of download_ticks: the assertions, then the stream is built    *)
(* (the Vec of hours is computed eagerly, nothing else runs).              *)
(***************************************************************************)
DownloadTicks ==
    /\ pc = "new"
    /\ \E t \in Targets :
       \E start \in Starts(t.day), end \in Ends(t.day) :
          /\ req' = [instrument |-> t.instrument, start |-> start, end |-> end]
          /\ IF HourAligned(start, end)
               THEN /\ hours' = compute_tick_download_times(start, end)
                    /\ pc' = "idle"
                    /\ panicSite' = panicSite
               ELSE /\ hours' = hours
                    /\ pc' = "panicked"
                    /\ panicSite' = "assert_eq"
    /\ UNCHANGED << supplier, base_url, idx, inflight, inner, out, outHour, fetchLog, urls,
                    log, lastHttp, pulls >>

\* the consumer polls the stream (StreamExt::next, collect, count, ...)
Pull ==
    /\ pc = "idle"
    /\ pc' = "polling"
    /\ pulls' = pulls + 1
    /\ UNCHANGED << supplier, base_url, panicSite, req, hours, idx, inflight, inner,
                    out, outHour, fetchLog, urls, log, lastHttp >>

\* a slip: the inner stream is drained from its back
YieldItemLast ==
    /\ pc = "polling"
    /\ inner # << >>
    /\ out' = Append(out, inner[Len(inner)])
    /\ outHour' = Append(outHour, Len(log))
    /\ inner' = SubSeq(inner, 1, Len(inner) - 1)
    /\ pc' = "idle"
    /\ UNCHANGED << supplier, base_url, panicSite, req, hours, idx, inflight,
                    fetchLog, urls, log, lastHttp, pulls >>

\* flat_map: the inner stream has an item; it is the answer to the poll
YieldItem ==
    /\ pc = "polling"
    /\ inner # << >>
    /\ out' = Append(out, Head(inner))
    /\ outHour' = Append(outHour, Len(log))
    /\ inner' = Tail(inner)
    /\ pc' = "idle"
    /\ UNCHANGED << supplier, base_url, panicSite, req, hours, idx, inflight,
                    fetchLog, urls, log, lastHttp, pulls >>

\* a slip: an hour whose fetch gave an error is fetched once more before
\* the stream moves on
IssueFetchRetrying ==
    /\ pc = "polling"
    /\ inner = << >>
    /\ inflight = { }
    /\ LET retry == /\ 0 < idx
                    /\ Len(log) = idx
                    /\ log[idx].result.tag = "Err"
                    /\ fetchLog[Len(fetchLog)] = hours[idx]
                    /\ \A i \in 1..(Len(fetchLog) - 1) : fetchLog[i] # hours[idx]
           next  == IF retry THEN idx ELSE idx + 1
       IN  /\ next <= Len(hours)
           /\ idx' = next
           /\ inflight' = inflight \cup { hours[next] }
           /\ fetchLog' = Append(fetchLog, hours[next])
           /\ urls' = Append(urls, generate_tick_download_url(
                                       base_url, hours[next], req.instrument))
    /\ pc' = "fetching"
    /\ UNCHANGED << supplier, base_url, panicSite, req, hours, inner, out, outHour,
                    log, lastHttp, pulls >>

\* a slip: the next hour is fetched ahead of the consumer's demand, as soon
\* as the stream is idle
IssueFetchEager ==
    /\ pc \in { "polling", "idle" }
    /\ inner = << >>
    /\ inflight = { }
    /\ idx < Len(hours)
    /\ idx' = idx + 1
    /\ inflight' = inflight \cup { hours[idx + 1] }
    /\ fetchLog' = Append(fetchLog, hours[idx + 1])
    /\ urls' = Append(urls, generate_tick_download_url(
                                base_url, hours[idx + 1], req.instrument))
    /\ pc' = "fetching"
    /\ UNCHANGED << supplier, base_url, panicSite, req, hours, inner, out, outHour,
                    log, lastHttp, pulls >>

\* a slip: the next fetch is started while the previous one is pending, as
\* with buffered(n) in place of then
IssueFetchBuffered ==
    /\ pc \in { "polling", "fetching" }
    /\ idx < Len(hours)
    /\ idx' = idx + 1
    /\ inflight' = inflight \cup { hours[idx + 1] }
    /\ fetchLog' = Append(fetchLog, hours[idx + 1])
    /\ urls' = Append(urls, generate_tick_download_url(
                                base_url, hours[idx + 1], req.instrument))
    /\ pc' = "fetching"
    /\ UNCHANGED << supplier, base_url, panicSite, req, hours, inner, out, outHour,
                    log, lastHttp, pulls >>

\* flat_map: the inner stream is exhausted, the outer one is polled; then
\* takes the next hour from stream::iter and starts its fetch
IssueFetch ==
    /\ pc = "polling"
    /\ inner = << >>
    /\ inflight = { }
    /\ idx < Len(hours)
    /\ idx' = idx + 1
    /\ inflight' = inflight \cup { hours[idx + 1] }
    /\ fetchLog' = Append(fetchLog, hours[idx + 1])
    /\ urls' = Append(urls, generate_tick_download_url(
                                base_url, hours[idx + 1], req.instrument))
    /\ pc' = "fetching"
    /\ UNCHANGED << supplier, base_url, panicSite, req, hours, inner, out, outHour,
                    log, lastHttp, pulls >>

\* the fetch future completes with result r; the same poll goes on through
\* decompress_data and buffer_to_ticks and installs the inner stream
\* a slip: the stream keeps the first error it met, and every later hour
\* yields that error again in place of its own items
CompleteKeepsFirstError(date, x, r) ==
    /\ inflight' = inflight \ { date }
    /\ lastHttp' = x
    /\ IF r.tag = "Panic"
         THEN /\ pc' = "panicked"
              /\ panicSite' = r.site
              /\ UNCHANGED << inner, log >>
         ELSE LET failed == { k \in 1..Len(log) : log[k].result.tag = "Err" }
              IN  \E items \in { IF failed = { }
                                   THEN HourItems(date, r)
                                   ELSE HourItems(date,
                                          log[CHOOSE k \in failed :
                                                 \A j \in failed : k <= j].result) } :
                  /\ log' = Append(log, [date |-> date, result |-> r])
                  /\ IF items.tag = "Panic"
                       THEN /\ pc' = "panicked"
                            /\ panicSite' = items.site
                            /\ inner' = inner
                       ELSE /\ pc' = "polling"
                            /\ panicSite' = panicSite
                            /\ inner' = items.val
    /\ UNCHANGED << supplier, base_url, req, hours, idx, out, outHour, fetchLog, urls,
                    pulls >>

Complete(date, x, r) ==
    /\ inflight' = inflight \ { date }
    /\ lastHttp' = x
    /\ IF r.tag = "Panic"
         THEN /\ pc' = "panicked"
              /\ panicSite' = r.site
              /\ UNCHANGED << inner, log >>
         ELSE \E items \in { HourItems(date, r) } :
                  /\ log' = Append(log, [date |-> date, result |-> r])
                  /\ IF items.tag = "Panic"
                       THEN /\ pc' = "panicked"
                            /\ panicSite' = items.site
                            /\ inner' = inner
                       ELSE /\ pc' = "polling"
                            /\ panicSite' = panicSite
                            /\ inner' = items.val
    /\ UNCHANGED << supplier, base_url, req, hours, idx, out, outHour, fetchLog, urls,
                    pulls >>

FetchReturn ==
    /\ pc = "fetching"
    /\ \E date \in inflight :
          \/ /\ supplier = "reqwest"
             /\ \E x \in HttpExchanges : Complete(date, x, ReqwestFetch(x))
          \/ /\ supplier = "custom"
             /\ \E r \in CustomOutcomes : Complete(date, NoHttp, r)

\* stream::iter is exhausted: the stream ends
EndOfStream ==
    /\ pc = "polling"
    /\ inner = << >>
    /\ inflight = { }
    /\ idx = Len(hours)
    /\ pc' = "done"
    /\ UNCHANGED << supplier, base_url, panicSite, req, hours, idx, inflight, inner,
                    out, outHour, fetchLog, urls, log, lastHttp, pulls >>

\* the consumer stops pulling and drops the stream, between two items or
\* while a fetch is pending
Drop ==
    /\ pc \in { "idle", "fetching" }
    /\ pc' = "dropped"
    /\ UNCHANGED << supplier, base_url, panicSite, req, hours, idx, inflight, inner,
                    out, outHour, fetchLog, urls, log, lastHttp, pulls >>

Next ==
    \/ DownloadTicks
    \/ Pull
    \/ YieldItem
    \/ IssueFetch
    \/ FetchReturn
    \/ EndOfStream
    \/ Drop

Spec == Init /\ [][Next]_vars

\* a consumer that pulls again after every item (collect, count, a while-let
\* loop), a supplier whose fetch future completes, and a poll that runs on
\* to its answer; the consumer may still drop the stream
SpecFair ==
    /\ Spec
    /\ WF_vars(Pull)
    /\ WF_vars(FetchReturn)
    /\ WF_vars(YieldItem)
    /\ WF_vars(IssueFetch)
    /\ WF_vars(EndOfStream)


(***************************************************************************)
(* Vocabulary of the properties.                                           *)
(***************************************************************************)
\* an hour bucket: minute, second and sub-second components are zero
IsHourBucket(dt) == dt.minute = 0 /\ dt.second = 0 /\ dt.nanosecond = 0

\* download_ticks has been called
Called == pc # "new"

\* the items the consumer has received that came from the k-th hour
ItemsOfHour(k) ==
    LET at == SelectSeq([i \in 1..Len(out) |-> i], LAMBDA i : outHour[i] = k)
    IN  [j \in 1..Len(at) |-> out[at[j]]]

\* the k-th hour's fetch has returned, its inner stream was installed and
\* the consumer has received all of it
HourDelivered(k) ==
    \/ k < Len(log)
    \/ k = Len(log) /\ inner = << >> /\ panicSite # "create_tick"

\* the outcome of the hour of log entry e
FetchFailed(e) == e.result.tag = "Err"
Absent(e) == e.result.tag = "Ok" /\ e.result.val.tag = "None"
Present(e) == e.result.tag = "Ok" /\ e.result.val.tag = "Some"
DecodeFailed(e) ==
    Present(e) /\ lzma_decompress(e.result.val.val).tag = "Err"
Decodes(e) ==
    Absent(e) \/ (Present(e) /\ lzma_decompress(e.result.val.val).tag = "Ok")

\* the decompressed buffer of an hour that decodes
Decoded(e) ==
    IF Absent(e) THEN << >> ELSE lzma_decompress(e.result.val.val).val

\* the complete 20-byte windows of a buffer, in buffer order
CompleteWindows(buf) ==
    [i \in 1..(Len(buf) \div RecordSize) |->
        SubSeq(buf, (i - 1) * RecordSize + 1, i * RecordSize)]

\* the items an hour stands for in the output: one error item for a failed
\* hour, else one tick per complete window of its buffer, in buffer order
SpecItems(e) ==
    IF FetchFailed(e) THEN << Err(e.result.error) >>
    ELSE IF DecodeFailed(e)
      THEN << Err(Error("Decode", lzma_decompress(e.result.val.val).error)) >>
    ELSE LET w == CompleteWindows(Decoded(e))
         IN  [i \in 1..Len(w) |->
                 Ok(create_tick(I64(unix_timestamp(e.date)), w[i]))]

\* the items of the first n hours that have returned, concatenated
SpecOutput(n) == Concat([k \in 1..n |-> SpecItems(log[k])])

\* the items come hour after hour
HourOrder == \A i, j \in 1..Len(outHour) : i < j => outHour[i] <= outHour[j]

(***************************************************************************)
(* C7: a request whose start or end has a non-zero minute, second or       *)
(* sub-second component is rejected by the call itself (the assertion      *)
(* panics): no consumer pull, no fetch and no item ever happens for it.    *)
(***************************************************************************)
C7_MisalignedRejected ==
    (Called /\ ~(IsHourBucket(req.start) /\ IsHourBucket(req.end)))
        => /\ pc = "panicked"
           /\ panicSite = "assert_eq"
           /\ pulls = 0
           /\ fetchLog = << >>
           /\ inflight = { }
           /\ log = << >>
           /\ out = << >>

\* a request with an aligned start and a misaligned end has been rejected
C7_Witness ==
    /\ Called
    /\ IsHourBucket(req.start)
    /\ ~IsHourBucket(req.end)
    /\ pc = "panicked"

(***************************************************************************)
(* C9: at most one fetch is in flight, and a fetch is in flight only for   *)
(* the hour right after the hours whose fetch has returned and whose       *)
(* decompression and parsing are complete: no parallel fetch, no prefetch. *)
(***************************************************************************)
C9_OneFetchAtATime ==
    /\ Cardinality(inflight) <= 1
    /\ Len(fetchLog) <= Len(log) + 1
    /\ \A d \in inflight :
          /\ Len(fetchLog) = Len(log) + 1
          /\ d = fetchLog[Len(fetchLog)]
    /\ \A k \in 1..Len(log) : log[k].date = fetchLog[k]

\* the second hour's fetch is in flight, the first hour is fully processed
C9_Witness ==
    /\ pc = "fetching"
    /\ Len(fetchLog) = 2
    /\ Len(log) = 1
    /\ inflight = { hours[2] }

(***************************************************************************)
(* C10: for hour-aligned start < end the enumerated hours are exactly      *)
(* start, start + 1h, ..., end - 1h: (end - start) / 1h elements, each an  *)
(* hour bucket, consecutive ones one hour apart, start included and end    *)
(* excluded.                                                               *)
(***************************************************************************)
C10_HourEnumeration ==
    (/\ Called
     /\ IsHourBucket(req.start)
     /\ IsHourBucket(req.end)
     /\ unix_timestamp(req.start) < unix_timestamp(req.end))
        => LET n == (unix_timestamp(req.end) - unix_timestamp(req.start))
                        \div SecondsPerHour
           IN  /\ Len(hours) = n
               /\ hours[1] = req.start
               /\ \A i \in 1..Len(hours) :
                     /\ IsHourBucket(hours[i])
                     /\ hours[i].hour \in 0..23
                     /\ hours[i] # req.end
                     /\ unix_timestamp(hours[i])
                          = unix_timestamp(req.start) + (i - 1) * SecondsPerHour
               /\ unix_timestamp(hours[Len(hours)]) + SecondsPerHour
                    = unix_timestamp(req.end)

\* a two-hour range that crosses midnight has been enumerated
C10_Witness ==
    /\ pc = "idle"
    /\ Len(hours) >= 2
    /\ hours[1].day < hours[2].day


(***************************************************************************)
(* C1: an hour whose fetch fails, or whose bytes do not decompress, stands *)
(* in the output as exactly one error item and no tick, after the items of *)
(* the hours before it and before those of the hours after it; the stream  *)
(* goes on after it: with the consumer pulling, the next hour's fetch is   *)
(* what comes next, and the stream ends only when every hour was fetched   *)
(* and every later hour's items were yielded.                              *)
(***************************************************************************)
C1_FaultIsolation ==
    /\ HourOrder
    /\ \A k \in 1..Len(log) :
          (FetchFailed(log[k]) \/ DecodeFailed(log[k]))
            => /\ Len(ItemsOfHour(k)) <= 1
               /\ \A i \in 1..Len(ItemsOfHour(k)) : ItemsOfHour(k)[i].tag = "Err"
               /\ HourDelivered(k) => Len(ItemsOfHour(k)) = 1
               /\ (pc = "polling" /\ HourDelivered(k) /\ k = Len(log)
                      /\ k < Len(hours))
                    => ENABLED IssueFetch
               /\ \A j \in (k + 1)..Len(log) :
                     /\ fetchLog[j] = hours[j]
                     /\ HourDelivered(j) => ItemsOfHour(j) = SpecItems(log[j])
               /\ pc = "done"
                    => /\ Len(fetchLog) = Len(hours)
                       /\ Len(log) = Len(hours)
                       /\ \A j \in (k + 1)..Len(hours) : HourDelivered(j)

\* the first hour's fetch failed, the second hour's ticks were yielded and
\* the stream has ended
C1_Witness ==
    /\ pc = "done"
    /\ Len(log) = 2
    /\ FetchFailed(log[1])
    /\ Len(out) >= 2
    /\ out[1].tag = "Err"
    /\ out[2].tag = "Ok"

(***************************************************************************)
(* C2: the stream is lazy.  No fetch is issued before the consumer's first *)
(* pull; a fetch is issued only while a pull is outstanding (more pulls    *)
(* than items received) and every item of the hours before has been        *)
(* received; once the consumer has dropped the stream no fetch is issued.  *)
(***************************************************************************)
C2_Lazy ==
    /\ [](pulls = 0 => (fetchLog = << >> /\ inflight = { }))
    /\ [][fetchLog' # fetchLog
            => /\ pc = "polling"
               /\ pulls > Len(out)
               /\ Len(log) = Len(fetchLog)
               /\ out = SpecOutput(Len(log))]_vars
    /\ [][pc = "dropped" => (pc' = "dropped" /\ fetchLog' = fetchLog)]_vars

\* the consumer stopped after the first hour's item: the second hour was
\* never fetched
C2_Witness ==
    /\ pc = "dropped"
    /\ Len(out) >= 1
    /\ Len(fetchLog) = 1
    /\ Len(hours) = 2

(***************************************************************************)
(* C6: the output is the concatenation, in hour order, of each hour's      *)
(* items, each hour's ticks in the order of the records of its buffer: at  *)
(* any moment the items received are a prefix of it, and at the end of the *)
(* stream they are all of it, so their number is the sum of the hours'     *)
(* record counts (0 for an absent hour, 1 for a failed hour).              *)
(***************************************************************************)
C6_OrderedConcatenation ==
    /\ HourOrder
    /\ Len(out) <= Len(SpecOutput(Len(log)))
    /\ out = SubSeq(SpecOutput(Len(log)), 1, Len(out))
    /\ \A k \in 1..Len(log) :
          HourDelivered(k) => ItemsOfHour(k) = SpecItems(log[k])
    /\ pc = "done"
         => /\ Len(log) = Len(hours)
            /\ \A k \in 1..Len(hours) : log[k].date = hours[k]
            /\ out = SpecOutput(Len(hours))

\* two hours of two different records each were received in full
C6_Witness ==
    /\ pc = "done"
    /\ Len(hours) = 2
    /\ Len(out) = 4
    /\ out[1] # out[2]
    /\ out[3] # out[4]
    /\ outHour = << 1, 1, 2, 2 >>


(***************************************************************************)
(* Vocabulary of the default supplier's properties.                        *)
(***************************************************************************)
\* the last fetch went through HTTP
ViaHttp == supplier = "reqwest" /\ lastHttp.conn # "none"

\* the request failed for a reason other than "not found" / empty body: no
\* response at all, a body that broke off, or a status outside 2xx that is
\* not 404 (with a body that is not empty)
OtherFailure(x) ==
    \/ x.conn = "refused"
    \/ /\ x.conn = "ok"
       /\ x.status # NotFound
       /\ \/ x.body.tag = "Err"
          \/ x.status \notin 200..299 /\ Len(x.body.val) > 0

\* the response says "no data": status 404, or an empty body
NoData(x) ==
    /\ x.conn = "ok"
    /\ \/ x.status = NotFound
       \/ x.body.tag = "Ok" /\ Len(x.body.val) = 0

\* the last fetch returned to the pipeline (it did not panic)
FetchReturned == panicSite # "fetch" /\ Len(log) > 0

LastResult == log[Len(log)].result

(***************************************************************************)
(* C3: in the default supplier a fetch that fails for a reason other than  *)
(* "not found" / empty body (a status outside 2xx other than 404, a        *)
(* transport error such as an unreachable server) returns a Network error  *)
(* carrying the cause: never bytes, never Absent, never a panic.           *)
(***************************************************************************)
C3_OtherFailuresAreNetworkErrors ==
    (ViaHttp /\ OtherFailure(lastHttp))
        => /\ FetchReturned
           /\ LastResult.tag = "Err"
           /\ LastResult.error.kind = "Network"

(***************************************************************************)
(* C4: in the default supplier a response with status 404, whatever its    *)
(* body, and a response with an empty body return Absent, and the hour     *)
(* contributes no item and no error.                                       *)
(***************************************************************************)
C4_NotFoundAndEmptyAreAbsent ==
    (ViaHttp /\ NoData(lastHttp))
        => /\ FetchReturned
           /\ Absent(log[Len(log)])
           /\ ItemsOfHour(Len(log)) = << >>
           /\ inner = << >>

(***************************************************************************)
(* C5: for a decompressed buffer of any length L the record parser never   *)
(* fails and yields floor(L / 20) ticks, one per complete 20-byte window   *)
(* in buffer order; a trailing partial window is discarded.                *)
(***************************************************************************)
C5_ParserNeverFails ==
    /\ panicSite # "create_tick"
    /\ \A k \in 1..Len(log) :
          (Decodes(log[k]) /\ HourDelivered(k))
            => /\ Len(ItemsOfHour(k)) = Len(Decoded(log[k])) \div RecordSize
               /\ ItemsOfHour(k) = SpecItems(log[k])

(***************************************************************************)
(* Vocabulary of the tick times.                                           *)
(***************************************************************************)
\* one hour in milliseconds, 3600000, as a u32
MillisPerHour == << 54, 61056 >>

\* the time_offset fields of the complete records of a buffer
OffsetsOf(buf) ==
    [i \in 1..Len(CompleteWindows(buf)) |->
        U32AsI64(read_u32(SubSeq(CompleteWindows(buf)[i], 1, 4)))]

\* normal vendor data: a whole number of records whose offsets do not
\* decrease and lie in [0, 3600000)
NormalBuffer(buf) ==
    /\ Len(buf) % RecordSize = 0
    /\ \A i \in 1..Len(OffsetsOf(buf)) :
          I64Less(OffsetsOf(buf)[i], U32AsI64(MillisPerHour))
    /\ \A i, j \in 1..Len(OffsetsOf(buf)) :
          i < j => I64Leq(OffsetsOf(buf)[i], OffsetsOf(buf)[j])

NormalData ==
    \A k \in 1..Len(log) : Decodes(log[k]) => NormalBuffer(Decoded(log[k]))

(***************************************************************************)
(* C8: under normal vendor data the times of the ticks of one hour do not  *)
(* decrease, and every tick of hour h+1 has a time strictly greater than   *)
(* every tick of hour h.                                                   *)
(***************************************************************************)
C8_TimesIncrease ==
    NormalData
        => \A i, j \in 1..Len(out) :
              (i < j /\ out[i].tag = "Ok" /\ out[j].tag = "Ok")
                => /\ outHour[i] = outHour[j]
                        => I64Leq(out[i].val.time, out[j].val.time)
                   /\ (outHour[i] < outHour[j]
                          /\ unix_timestamp(log[outHour[j]].date)
                               = unix_timestamp(log[outHour[i]].date)
                                   + SecondsPerHour)
                        => I64Less(out[i].val.time, out[j].val.time)


(***************************************************************************)
(* C11: an hour whose fetch result is Absent decompresses to the empty     *)
(* buffer and contributes no item, neither a tick nor an error; the same   *)
(* poll goes on to the next hour's fetch (or to the end of the stream).    *)
(***************************************************************************)
C11_AbsentHourIsSilent ==
    \A k \in 1..Len(log) :
        Absent(log[k])
          => /\ decompress_data(log[k].result.val).tag = "Ok"
             /\ decompress_data(log[k].result.val).val = << >>
             /\ ItemsOfHour(k) = << >>
             /\ k = Len(log) => (inner = << >> /\ panicSite # "create_tick")
             /\ (pc = "polling" /\ k = Len(log) /\ k < Len(hours))
                  => ENABLED IssueFetch
             /\ (pc = "polling" /\ k = Len(log) /\ k = Len(hours))
                  => ENABLED EndOfStream
             /\ pc = "done" => Len(fetchLog) = Len(hours)

\* the first hour was absent: the consumer's first pull went on to the
\* second hour and was answered with its first tick
C11_Witness ==
    /\ Len(log) = 2
    /\ Absent(log[1])
    /\ pulls = 1
    /\ Len(out) = 1
    /\ out[1].tag = "Ok"
    /\ outHour[1] = 2

(***************************************************************************)
(* C12: the kind of an hour's error item is that of the stage that failed. *)
(* A fetch failure is passed through unchanged (kind Network, the          *)
(* supplier's cause); bytes that are no valid compression stream give an   *)
(* error of kind Decode carrying the decoder's cause; an absent hour gives *)
(* no error; and no error item comes from anywhere else.                   *)
(***************************************************************************)
C12_ErrorKindByStage ==
    /\ \A k \in 1..Len(log) :
          /\ FetchFailed(log[k])
               => /\ log[k].result.error.kind = "Network"
                  /\ \A i \in 1..Len(ItemsOfHour(k)) :
                        ItemsOfHour(k)[i] = Err(log[k].result.error)
                  /\ HourDelivered(k) => Len(ItemsOfHour(k)) = 1
          /\ DecodeFailed(log[k])
               => /\ \A i \in 1..Len(ItemsOfHour(k)) :
                        ItemsOfHour(k)[i] = Err(Error("Decode", "lzma"))
                  /\ HourDelivered(k) => Len(ItemsOfHour(k)) = 1
          /\ Absent(log[k]) => ItemsOfHour(k) = << >>
    /\ \A i \in 1..Len(out) :
          out[i].tag = "Err"
            => /\ out[i].error.kind = "Decode" => DecodeFailed(log[outHour[i]])
               /\ out[i].error.kind = "Network" => FetchFailed(log[outHour[i]])
               /\ out[i].error.kind \in { "Decode", "Network" }

\* a Network error item and a Decode error item have been received
C12_Witness ==
    /\ Len(out) = 2
    /\ out[1].tag = "Err"
    /\ out[1].error.kind = "Network"
    /\ out[2].tag = "Err"
    /\ out[2].error.kind = "Decode"


(***************************************************************************)
(* The URL of an hour's file.                                              *)
(***************************************************************************)
\* the calendar, read off for the days the requests touch
Calendar(d) ==
    CASE d = YearEndDay     -> [year |-> 2019, month |-> 12, day |-> 31]
      [] d = YearEndDay + 1 -> [year |-> 2020, month |-> 1,  day |-> 1]
      [] d = BaseDay        -> [year |-> 2020, month |-> 3,  day |-> 12]
      [] d = BaseDay + 1    -> [year |-> 2020, month |-> 3,  day |-> 13]

\* a number below 100 written with two decimal digits
TwoDigits(n) == ToString(n \div 10) \o ToString(n % 10)

\* the URL the vendor serves the hour's file under
VendorUrl(base, instrument, date) ==
    LET c == Calendar(date.day)
    IN  base \o "/" \o instrument \o "/" \o ToString(c.year) \o "/"
             \o TwoDigits(c.month - 1) \o "/" \o TwoDigits(c.day) \o "/"
             \o TwoDigits(date.hour) \o "h_ticks.bi5"

\* C13: for every instrument, base_url and hour, the URL fetched for the hour
\* is {base_url}/{instrument}/{year}/{month - 1, two digits}/{day, two
\* digits}/{hour, two digits}h_ticks.bi5: the month is zero-indexed, the day
\* and the hour are the calendar's, and the instrument is inserted as it is.
C13_UrlOfHour ==
    /\ Len(urls) = Len(fetchLog)
    /\ \A k \in 1..Len(urls) :
          urls[k] = VendorUrl(base_url, req.instrument, fetchLog[k])

\* December is 11 and January is 00; a space and a slash of the instrument
\* are in the path unescaped
C13_Witness ==
    /\ Len(urls) = 2
    /\ urls[1] = "https://datafeed.dukascopy.com/datafeed/EUR USD/x/2019/11/31/23h_ticks.bi5"
    /\ urls[2] = "https://datafeed.dukascopy.com/datafeed/EUR USD/x/2020/00/01/00h_ticks.bi5"


(***************************************************************************)
(* C14: for every hour and every 32-bit unsigned offset of a record, the   *)
(* tick's time is unix_seconds(hour) + offset exactly: the offset is added *)
(* unconverted, as an unsigned value, and the sum does not wrap at 32      *)
(* bits.  A buffer of exactly one 20-byte record yields exactly one tick.  *)
(***************************************************************************)
\* t = seconds + offset as integers, t an i64 in limbs, offset a u32 in
\* limbs, seconds below 2^31: the low limbs agree up to a carry c and the
\* rest agrees with the carry
ExactSum(t, seconds, offset) ==
    \E c \in 0..1 :
        /\ t[1] = 0
        /\ t[2] \in 0..1
        /\ t[4] + c * Limb = (seconds % Limb) + offset[2]
        /\ t[3] + t[2] * Limb = (seconds \div Limb) + offset[1] + c

C14_TickTimeExact ==
    \A k \in 1..Len(log) :
        Decodes(log[k])
          => LET items   == ItemsOfHour(k)
                 buffer  == Decoded(log[k])
                 seconds == unix_timestamp(log[k].date)
             IN  /\ \A j \in 1..Len(items) :
                       /\ items[j].tag = "Ok"
                       /\ ExactSum(items[j].val.time, seconds,
                                   read_u32(SubSeq(buffer,
                                                   (j - 1) * RecordSize + 1,
                                                   (j - 1) * RecordSize + 4)))
                 /\ (HourDelivered(k) /\ Len(buffer) = RecordSize)
                      => Len(items) = 1

\* the test's tick (offset 218) and a tick of offset 0xFFFFFFFF, whose time
\* is above 2^32, each the one tick of its one-record hour
C14_Witness ==
    /\ Len(log) = 2
    /\ Len(out) = 2
    /\ outHour = << 1, 2 >>
    /\ Decodes(log[1])
    /\ Decodes(log[2])
    /\ Decoded(log[1]) = EncodeRecord(<< 0, 218 >>)
    /\ out[1].val.time = I64(unix_timestamp(log[1].date) + 218)
    /\ Decoded(log[2]) = EncodeRecord(<< Limb - 1, Limb - 1 >>)
    /\ out[2].val.time[2] = 1
    /\ pc = "done"


(***************************************************************************)
(* C15: the items emitted for an hour depend only on the hour's instant    *)
(* and the hour's fetch result.  Whatever the request, the supplier, the   *)
(* position of the hour and the outcomes of the other hours (failures      *)
(* included), an hour that was delivered gave the items that its instant   *)
(* and its result determine; and two hours with the same result gave the   *)
(* same items, but for the ticks' times, which differ by the difference of *)
(* the hours' instants.                                                    *)
(***************************************************************************)
\* the items determined by an hour's instant and its fetch result
ItemsFor(date, result) == SpecItems([date |-> date, result |-> result])

\* item b is item a moved from the hour at second sa to the hour at sb >= sa
SameButForTime(a, sa, b, sb) ==
    IF a.tag = "Ok"
      THEN /\ b.tag = "Ok"
           /\ [b.val EXCEPT !.time = a.val.time] = a.val
           /\ b.val.time = I64Add(a.val.time, I64(sb - sa))
      ELSE b = a

C15_ItemsDependOnTheHourOnly ==
    LET items == [k \in 1..Len(log) |-> ItemsOfHour(k)]
    IN  /\ \A k \in 1..Len(log) :
              LET determined == ItemsFor(log[k].date, log[k].result)
              IN  /\ Len(items[k]) <= Len(determined)
                  /\ items[k] = SubSeq(determined, 1, Len(items[k]))
                  /\ HourDelivered(k) => Len(items[k]) = Len(determined)
        /\ \A k1, k2 \in 1..Len(log) :
              (k1 < k2 /\ HourDelivered(k2) /\ log[k1].result = log[k2].result)
                => /\ Len(items[k1]) = Len(items[k2])
                   /\ \A j \in 1..Len(items[k1]) :
                         SameButForTime(items[k1][j],
                                        unix_timestamp(log[k1].date),
                                        items[k2][j],
                                        unix_timestamp(log[k2].date))

\* the first hour's fetch failed and the second hour, with the test's one
\* record, gave the test's one tick
C15_Witness ==
    /\ Len(log) = 2
    /\ FetchFailed(log[1])
    /\ Decodes(log[2])
    /\ Decoded(log[2]) = EncodeRecord(<< 0, 218 >>)
    /\ HourDelivered(2)
    /\ ItemsOfHour(2) = ItemsFor(log[2].date, log[2].result)
    /\ Len(ItemsOfHour(2)) = 1


(***************************************************************************)
(* C16: in a run of one download_ticks stream each requested hour is       *)
(* fetched at most once and the fetches are issued in strictly increasing  *)
(* hour order; an hour that failed or was absent is not fetched again; and *)
(* when the consumer has pulled to the end, the number of fetches is the   *)
(* number of requested hours, whatever the outcomes were.                  *)
(***************************************************************************)
\* how many fetches were issued for the hour
FetchCount(date) == Cardinality({ i \in 1..Len(fetchLog) : fetchLog[i] = date })

C16_OneFetchPerHourInOrder ==
    /\ \A i \in 1..Len(fetchLog) : \E k \in 1..Len(hours) : fetchLog[i] = hours[k]
    /\ \A k \in 1..Len(hours) : FetchCount(hours[k]) <= 1
    /\ \A i, j \in 1..Len(fetchLog) :
          i < j => unix_timestamp(fetchLog[i]) < unix_timestamp(fetchLog[j])
    /\ \A k \in 1..Len(log) :
          (FetchFailed(log[k]) \/ Absent(log[k]) \/ DecodeFailed(log[k]))
            => FetchCount(log[k].date) = 1
    /\ pc = "done"
         => /\ Len(fetchLog) = Len(hours)
            /\ \A k \in 1..Len(hours) : FetchCount(hours[k]) = 1

\* the stream has ended after a failed hour and an absent hour: two hours,
\* two fetches
C16_Witness ==
    /\ pc = "done"
    /\ Len(hours) = 2
    /\ FetchFailed(log[1])
    /\ Absent(log[2])
    /\ Len(fetchLog) = 2
    /\ out = << Err(log[1].result.error) >>


(***************************************************************************)
(* C17: if every issued fetch returns, with any of its three outcomes      *)
(* (bytes, no data, an error), and the consumer keeps pulling, the stream  *)
(* reports its end.  The stream has been returned when it is first idle;   *)
(* a consumer that dropped it has stopped pulling, and a fetch that        *)
(* panicked has returned none of the three outcomes.                       *)
(***************************************************************************)
C17_StreamEnds ==
    (pc = "idle") ~> (pc = "done" \/ pc = "dropped" \/ panicSite = "fetch")


(***************************************************************************)
(* C18: for hour-aligned bounds with end <= start (an empty or a reversed  *)
(* range) download_ticks returns an empty stream: no fetch is issued, no   *)
(* item is yielded and no error or contract violation is signalled; the    *)
(* first poll reports the end.                                             *)
(***************************************************************************)
EmptyOrReversed ==
    /\ Called
    /\ IsHourBucket(req.start)
    /\ IsHourBucket(req.end)
    /\ unix_timestamp(req.end) <= unix_timestamp(req.start)

C18_EmptyRange ==
    EmptyOrReversed
      => /\ hours = << >>
         /\ pc \in { "idle", "polling", "done", "dropped" }
         /\ panicSite = "none"
         /\ fetchLog = << >>
         /\ urls = << >>
         /\ inflight = { }
         /\ log = << >>
         /\ out = << >>
         /\ pulls <= 1
         /\ pc = "polling" => (ENABLED EndOfStream /\ ~ ENABLED IssueFetch)

\* a range whose end is one hour before its start: the first pull was
\* answered with the end of the stream
C18_Witness ==
    /\ EmptyOrReversed
    /\ unix_timestamp(req.end) < unix_timestamp(req.start)
    /\ pc = "done"
    /\ pulls = 1
    /\ out = << >>
    /\ fetchLog = << >>

=============================================================================
